---- MODULE Spec2Model ----
(***************************************************************************)
(* A state-machine model of src/src/data/make_dataset.py: the helpers      *)
(* load_dataset and check_data_quality and the top-level analysis script   *)
(* (load, quality check, date parsing, exploration, feature selection,     *)
(* VIF, outlier removal, M-estimate encoding, scaling, split, training     *)
(* loop, evaluation loop, winner selection).                               *)
(*                                                                         *)
(* Numbers are exact: a real number the script computes is kept as a       *)
(* normalised fraction <<num, den>>, a standardised value z as             *)
(* <<sign(z), num, den>> with z^2 = num/den.  NaN is a zero denominator.   *)
(* The estimators are library black boxes: what an estimator predicts for  *)
(* a test row is a free choice from PredValues.  Any library call of a     *)
(* stage may raise (LibraryRaises); an unhandled exception ends the        *)
(* process and with it every object of the script.                         *)
(***************************************************************************)
EXTENDS Integers, Sequences, FiniteSets

(* ------------------------------ bounds --------------------------------- *)

\* largest number of rows of an input table
MaxRows == 3
\* prices of the input rows are 0..MaxPrice
MaxPrice == 1
\* number of rows of the cleaned table whose test partition SpecEval scores
EvalRows == 6

(* ------------------------- arithmetic helpers -------------------------- *)

Abs(x) == IF x < 0 THEN -x ELSE x

Sign(x) == IF x < 0 THEN -1 ELSE IF x = 0 THEN 0 ELSE 1

RECURSIVE GCD(_, _)
GCD(a, b) == IF b = 0 THEN a ELSE GCD(b, a % b)

LCM(a, b) == (a * b) \div GCD(a, b)

RECURSIVE SumSeq(_)
SumSeq(s) == IF s = <<>> THEN 0 ELSE Head(s) + SumSeq(Tail(s))

RECURSIVE LCMSeq(_)
LCMSeq(s) == IF s = <<>> THEN 1 ELSE LCM(Head(s), LCMSeq(Tail(s)))

\* the fraction n/d in lowest terms, d > 0
Frac(n, d) ==
    LET g == GCD(Abs(n), d) IN <<n \div g, d \div g>>

NaN == <<0, 0>>

IsNaN(q) == q[2] = 0

\* a/b < c/d for fractions with positive denominators
FracLess(p, q) == p[1] * q[2] < q[1] * p[2]

\* the elements of a sequence, as a set
Range(s) == {s[i] : i \in 1..Len(s)}

\* the subsequence of s at the positions in idx, in ascending position order
RECURSIVE TakeFrom(_, _, _)
TakeFrom(s, idx, i) ==
    IF i > Len(s) THEN <<>>
    ELSE IF i \in idx THEN <<s[i]>> \o TakeFrom(s, idx, i + 1)
    ELSE TakeFrom(s, idx, i + 1)

Take(s, idx) == TakeFrom(s, idx, 1)

(* ------------------------------ tables --------------------------------- *)

\* a missing cell (pandas NaN) of an integer column
Null == -1

\* the columns of the raw CSV (spec section 3, used by name in the script)
RawColumns ==
    <<"date", "price", "bedrooms", "bathrooms", "sqft_living", "sqft_lot",
      "floors", "waterfront", "view", "condition", "sqft_above",
      "sqft_basement", "yr_built", "yr_renovated", "street", "city",
      "statezip", "country">>

ObjectColumns == {"date", "street", "city", "statezip", "country"}

\* dtypes as pandas infers them: text columns are object, the rest numeric
RawDtypes ==
    [c \in Range(RawColumns) |->
        IF c \in ObjectColumns THEN "object"
        ELSE IF c = "price" THEN "float64" ELSE "int64"]

selected_features ==
    <<"bedrooms", "bathrooms", "sqft_living", "sqft_lot", "sqft_above",
      "street", "city", "statezip", "yr_built", "price">>

variables_to_check ==
    <<"bedrooms", "bathrooms", "sqft_living", "sqft_lot", "sqft_above">>

encoder_cols == {"city", "street", "statezip"}

\* the numeric columns that survive the feature selection
ShapedColumns ==
    {"bedrooms", "bathrooms", "sqft_living", "sqft_lot", "sqft_above",
     "yr_built"}

None == [none |-> TRUE, columns |-> <<>>, dtypes |-> <<>>, rows |-> <<>>]

\* the input tables.  A table is fixed by its row count n, by the shape of
\* each numeric selected column (varying, constant, or empty = all missing),
\* by how the rows share their categories and by the rows' prices.
Shapes == {"vary", "const", "empty"}

CatPatterns == {"unique", "shared"}

Cell(c, i, shape, cat, price) ==
    IF c \in ShapedColumns THEN
        CASE shape[c] = "vary" -> i % 2
          [] shape[c] = "const" -> 1
          [] OTHER -> Null
    ELSE IF c = "price" THEN price[i]
    ELSE IF c = "street" THEN (IF cat = "unique" THEN i ELSE 1)
    ELSE IF c \in {"city", "statezip"} THEN
        (IF cat = "unique" THEN i ELSE 1 + (i % 2))
    ELSE 0

MkTable(n, shape, cat, price) ==
    [none |-> FALSE,
     columns |-> RawColumns,
     dtypes |-> RawDtypes,
     rows |-> [i \in 1..n |->
                 [c \in Range(RawColumns) |-> Cell(c, i, shape, cat, price)]]]

AllVary == [c \in ShapedColumns |-> "vary"]

\* prices: the last k rows are free in 0..MaxPrice, the others cost 1
PriceVectors(n, k) ==
    {p \in [1..n -> 0..MaxPrice] : \A i \in 1..n : i <= n - k => p[i] = 1}

\* every arrangement of varying / constant / empty columns, at MaxRows rows
ShapeTables ==
    {MkTable(MaxRows, sh, "shared", [i \in 1..MaxRows |-> 1]) :
        sh \in [ShapedColumns -> Shapes]}

\* well-shaped tables of every size, categories and prices varying
PriceTables ==
    UNION {{MkTable(n, AllVary, cat, p) : cat \in CatPatterns,
                                          p \in PriceVectors(n, 1)} :
           n \in 0..MaxRows}

Tables == ShapeTables \cup PriceTables

\* what reading the path does: the three failure classes of load_dataset,
\* or a table
FileKinds == {"ok", "not_found", "empty", "unreadable"}

Files ==
    {[kind |-> "ok", table |-> t] : t \in Tables}
    \cup {[kind |-> k, table |-> None] : k \in FileKinds \ {"ok"}}

(* --------------------------- pandas helpers ---------------------------- *)

Column(t, c) == [i \in 1..Len(t.rows) |-> t.rows[i][c]]

\* Series.nunique(): distinct values, missing cells not counted
Nunique(t, c) == Cardinality(Range(Column(t, c)) \ {Null})

\* DataFrame.duplicated().sum(): rows equal to an earlier row
Duplicated(t) ==
    Cardinality({i \in 1..Len(t.rows) :
                    \E j \in 1..(i - 1) : t.rows[j] = t.rows[i]})

\* DataFrame.isnull().sum(), summed over the columns
NullCount(t) ==
    SumSeq([k \in 1..Len(t.columns) |->
              Cardinality({i \in 1..Len(t.rows) :
                              t.rows[i][t.columns[k]] = Null})])

\* data_set[cols]: the table restricted to the listed columns
SelectColumns(t, cols) ==
    [none |-> FALSE,
     columns |-> cols,
     dtypes |-> [c \in Range(cols) |-> t.dtypes[c]],
     rows |-> [i \in 1..Len(t.rows) |->
                 [c \in Range(cols) |-> t.rows[i][c]]]]

(* ------------------------------ state ---------------------------------- *)

VARIABLES
    pc,               \* the statement the script is at
    file,             \* what is at file_path
    load_returned,    \* what load_dataset returned: "pending", "table", "None"
    stdout,           \* the messages printed so far
    history,          \* the pipeline stages started so far, in order
    data_set,         \* the working table, or None
    numerical_vars,   \* the columns VIF is computed over
    dataset_cleaned,  \* rows kept by the Z-score filter
    dataset_encoded,  \* cleaned rows, categories M-estimate encoded
    X_normalized,     \* standardised feature matrix
    y,                \* target column
    split,            \* train / test partition
    fitted,           \* per model name: the rows its estimator was fitted on
    predictions,      \* name -> prediction pairs in insertion order
    metrics_df,       \* metrics rows in insertion order
    best              \* winner selection result

vars ==
    <<pc, file, load_returned, stdout, history, data_set, numerical_vars,
      dataset_cleaned, dataset_encoded, X_normalized, y, split, fitted,
      predictions, metrics_df, best>>

\* the stages of the pipeline, in script order (spec section 1)
StageOrder ==
    <<"load", "quality-check", "type-convert", "explore", "select",
      "multicollinearity", "outliers", "encode", "scale", "split", "train",
      "evaluate", "winner">>

NoSplit ==
    [train |-> {}, test |-> {}, X_train |-> <<>>, X_test |-> <<>>,
     y_train |-> <<>>, y_test |-> <<>>]

NoBest ==
    [best_mse_model |-> "", best_r2_model |-> "", best_model_name |-> "",
     plot_actual |-> <<>>, plot_predicted |-> <<>>]

Init ==
    /\ pc = "load"
    /\ file \in Files
    /\ load_returned = "pending"
    /\ stdout = <<>>
    /\ history = <<>>
    /\ data_set = None
    /\ numerical_vars = <<>>
    /\ dataset_cleaned = None
    /\ dataset_encoded = None
    /\ X_normalized = <<>>
    /\ y = <<>>
    /\ split = NoSplit
    /\ fitted = <<>>
    /\ predictions = <<>>
    /\ metrics_df = <<>>
    /\ best = NoBest

(* ------------------- load_dataset, check_data_quality ------------------ *)

\* one printed message: what it is about and the number it reports
Line(tag, n) == [tag |-> tag, n |-> n]

\* load_dataset without its last handler ("except Exception"): an exception
\* that is neither FileNotFoundError nor EmptyDataError leaves the function
load_dataset_uncaught(f) ==
    CASE f.kind = "ok" ->
            [result |-> f.table,
             printed |-> <<Line("head", Len(f.table.rows))>>,
             raised |-> FALSE]
      [] f.kind = "not_found" ->
            [result |-> None,
             printed |-> <<Line("The file was not found.", 0)>>,
             raised |-> FALSE]
      [] f.kind = "empty" ->
            [result |-> None,
             printed |-> <<Line("The file is empty.", 0)>>,
             raised |-> FALSE]
      [] OTHER ->
            [result |-> None, printed |-> <<>>, raised |-> TRUE]

\* load_dataset(file_path): what it returns, what it prints, and whether an
\* exception leaves it
load_dataset(f) ==
    CASE f.kind = "ok" ->
            [result |-> f.table,
             printed |-> <<Line("head", Len(f.table.rows))>>,
             raised |-> FALSE]
      [] f.kind = "not_found" ->
            [result |-> None,
             printed |-> <<Line("The file was not found.", 0)>>,
             raised |-> FALSE]
      [] f.kind = "empty" ->
            [result |-> None,
             printed |-> <<Line("The file is empty.", 0)>>,
             raised |-> FALSE]
      [] OTHER ->
            [result |-> None,
             printed |-> <<Line("An error occurred:", 0)>>,
             raised |-> FALSE]

\* check_data_quality without its "is not None" test: on None the first
\* method call raises
check_data_quality_unguarded(ds) ==
    IF ~ds.none THEN
        [printed |-> <<Line("Number of duplicate rows:", Duplicated(ds)),
                       Line("Null values in each column:", NullCount(ds))>>,
         argument |-> ds,
         returned |-> "None",
         raised |-> FALSE]
    ELSE
        [printed |-> <<>>, argument |-> ds, returned |-> "None",
         raised |-> TRUE]

\* check_data_quality(ds): what it prints, the state it leaves its argument
\* in, what it returns, and whether an exception leaves it
check_data_quality(ds) ==
    IF ~ds.none THEN
        [printed |-> <<Line("Number of duplicate rows:", Duplicated(ds)),
                       Line("Null values in each column:", NullCount(ds))>>,
         argument |-> ds,
         returned |-> "None",
         raised |-> FALSE]
    ELSE
        [printed |-> <<Line("Data set is None, cannot perform data quality checks.", 0)>>,
         argument |-> ds,
         returned |-> "None",
         raised |-> FALSE]

(* --------------------------- the script -------------------------------- *)

\* an unhandled exception: the interpreter exits, the script's objects are
\* gone; what was printed and what had run stay
Crash ==
    /\ pc' = "error"
    /\ data_set' = None
    /\ numerical_vars' = <<>>
    /\ dataset_cleaned' = None
    /\ dataset_encoded' = None
    /\ X_normalized' = <<>>
    /\ y' = <<>>
    /\ split' = NoSplit
    /\ fitted' = <<>>
    /\ predictions' = <<>>
    /\ metrics_df' = <<>>
    /\ best' = NoBest
    /\ UNCHANGED <<file, load_returned>>

Later ==
    <<numerical_vars, dataset_cleaned, dataset_encoded, X_normalized, y,
      split, fitted, predictions, metrics_df, best>>

\* lines 82-83: data_set = load_dataset(file_path)
Load ==
    /\ pc = "load"
    /\ LET r == load_dataset(file) IN
        /\ stdout' = stdout \o r.printed
        /\ history' = Append(history, "load")
        /\ IF r.raised
           THEN Crash
           ELSE /\ pc' = "quality"
                /\ data_set' = r.result
                /\ load_returned' = IF r.result.none THEN "None" ELSE "table"
                /\ UNCHANGED <<file>>
                /\ UNCHANGED Later

\* line 84: check_data_quality(data_set)
QualityCheck ==
    /\ pc = "quality"
    /\ LET r == check_data_quality(data_set) IN
        /\ stdout' = stdout \o r.printed
        /\ history' = Append(history, "quality-check")
        /\ IF r.raised
           THEN Crash
           ELSE /\ pc' = "inspect"
                /\ data_set' = r.argument
                /\ UNCHANGED <<file, load_returned>>
                /\ UNCHANGED Later

\* lines 87-89 on a table: data_set.info(), .columns, .describe()
Inspect ==
    /\ pc = "inspect"
    /\ ~data_set.none
    /\ pc' = "date"
    /\ UNCHANGED <<file, load_returned, stdout, history, data_set>>
    /\ UNCHANGED Later

\* the script with a test for None before the inspection that ends the run
\* quietly
InspectNone_exits ==
    /\ pc = "inspect"
    /\ data_set.none
    /\ pc' = "done"
    /\ UNCHANGED <<file, load_returned, stdout, history, data_set>>
    /\ UNCHANGED Later

\* line 87 on None: None has no attribute info, AttributeError, unhandled
InspectNone ==
    /\ pc = "inspect"
    /\ data_set.none
    /\ Crash
    /\ UNCHANGED <<stdout, history>>

\* line 94: data_set['date'] = pd.to_datetime(data_set['date'])
to_datetime(t) ==
    [t EXCEPT !.dtypes = [t.dtypes EXCEPT !["date"] = "datetime64[ns]"]]

ParseDates ==
    /\ pc = "date"
    /\ data_set' = to_datetime(data_set)
    /\ history' = Append(history, "type-convert")
    /\ pc' = "explore"
    /\ UNCHANGED <<file, load_returned, stdout>>
    /\ UNCHANGED Later

\* lines 103-154: mutual information on a copy, correlations, ANOVA, plots;
\* the working table is read, never written
Explore ==
    /\ pc = "explore"
    /\ history' = Append(history, "explore")
    /\ pc' = "select"
    /\ UNCHANGED <<file, load_returned, stdout, data_set>>
    /\ UNCHANGED Later

\* the script with the multicollinearity block left out
SelectFeatures_skips_vif ==
    /\ pc = "select"
    /\ data_set' = SelectColumns(data_set, selected_features)
    /\ history' = Append(history, "select")
    /\ pc' = "outliers"
    /\ UNCHANGED <<file, load_returned, stdout>>
    /\ UNCHANGED Later

\* lines 162-165: data_set = data_set[selected_features]
SelectFeatures ==
    /\ pc = "select"
    /\ data_set' = SelectColumns(data_set, selected_features)
    /\ history' = Append(history, "select")
    /\ pc' = "vif"
    /\ UNCHANGED <<file, load_returned, stdout>>
    /\ UNCHANGED Later

\* lines 169-170: the int64 / float64 columns in table order, without price
NumericColumns(t) ==
    SelectSeq(t.columns,
              LAMBDA c : t.dtypes[c] \in {"int64", "float64"} /\ c # "price")

\* list.remove(x) for the element at position i of a list without repeats
RemoveAt(s, i) == SubSeq(s, 1, i - 1) \o SubSeq(s, i + 1, Len(s))

\* lines 172-175: "for var in numerical_vars: if nunique <= 1: remove(var)".
\* The list iterator advances its position after every pass, also after a
\* pass that removed the element at that position.
RECURSIVE ExclusionLoop(_, _, _)
ExclusionLoop(t, vs, i) ==
    IF i > Len(vs) THEN vs
    ELSE IF Nunique(t, vs[i]) <= 1
         THEN ExclusionLoop(t, RemoveAt(vs, i), i + 1)
         ELSE ExclusionLoop(t, vs, i + 1)

\* lines 169-185: numeric columns, exclusion loop, VIF over what is left
Multicollinearity ==
    /\ pc = "vif"
    /\ LET left == ExclusionLoop(data_set, NumericColumns(data_set), 1) IN
        /\ numerical_vars' = left
        /\ stdout' = Append(stdout,
               IF Len(left) > 0
               THEN Line("vif_data", Len(left))
               ELSE Line("Not enough variables for VIF calculation", 0))
    /\ history' = Append(history, "multicollinearity")
    /\ pc' = "outliers"
    /\ UNCHANGED <<file, load_returned, data_set, dataset_cleaned,
                   dataset_encoded, X_normalized, y, split, fitted,
                   predictions, metrics_df, best>>

\* lines 240-243: stats.zscore over variables_to_check (population standard
\* deviation), a row is kept when every |z| < 3.  z = B / sqrt(V) with
\* B = n*x - sum and V = n*sum(x^2) - sum^2; a constant column gives 0/0 and
\* a column with a missing cell gives NaN throughout, and NaN < 3 is False.
KeepsRow(t, i) ==
    \A k \in 1..Len(variables_to_check) :
        LET col == Column(t, variables_to_check[k])
            n == Len(col)
            S == SumSeq(col)
            Q == SumSeq([j \in 1..n |-> col[j] * col[j]])
            V == n * Q - S * S
            B == n * col[i] - S
        IN  /\ Null \notin Range(col)
            /\ V > 0
            /\ B * B < 9 * V

\* line 244: dataset_cleaned = data_set[filtered_entries]
ZScoreFilter(t) ==
    [t EXCEPT !.rows = Take(t.rows, {i \in 1..Len(t.rows) : KeepsRow(t, i)})]

\* lines 189-246: outlier diagnostics (printed only) and the Z-score filter
RemoveOutliers ==
    /\ pc = "outliers"
    /\ dataset_cleaned' = ZScoreFilter(data_set)
    /\ stdout' = Append(stdout,
           Line("Cleaned dataset shape:", Len(ZScoreFilter(data_set).rows)))
    /\ history' = Append(history, "outliers")
    /\ pc' = "encode"
    /\ UNCHANGED <<file, load_returned, data_set, numerical_vars,
                   dataset_encoded, X_normalized, y, split, fitted,
                   predictions, metrics_df, best>>

\* MEstimateEncoder(m=0.5), fitted and applied on the same rows: a category
\* becomes (sum_c + m * prior) / (n_c + m), prior the mean price of all the
\* fitted rows.  With m = 1/2: (2*N*sum_c + S) / (N * (2*n_c + 1)).
MEstimate(rows, c, i) ==
    LET N == Len(rows)
        S == SumSeq([j \in 1..N |-> rows[j]["price"]])
        same == {j \in 1..N : rows[j][c] = rows[i][c]}
        sum_c == SumSeq([j \in 1..N |->
                           IF j \in same THEN rows[j]["price"] ELSE 0])
        n_c == Cardinality(same)
    IN  Frac(2 * N * sum_c + S, N * (2 * n_c + 1))

\* lines 251-254: encoder.fit_transform(features, price), price put back
EncodeRows(rows) ==
    [i \in 1..Len(rows) |->
        [c \in DOMAIN rows[i] |->
            IF c \in encoder_cols THEN MEstimate(rows, c, i)
            ELSE IF rows[i][c] = Null THEN NaN
            ELSE <<rows[i][c], 1>>]]

fit_transform(t) ==
    [t EXCEPT !.rows = EncodeRows(t.rows),
              !.dtypes = [c \in DOMAIN t.dtypes |->
                            IF c \in encoder_cols THEN "float64"
                            ELSE t.dtypes[c]]]

\* lines 251-256: encode, then del dataset_cleaned
Encode ==
    /\ pc = "encode"
    /\ dataset_encoded' = fit_transform(dataset_cleaned)
    /\ dataset_cleaned' = None
    /\ history' = Append(history, "encode")
    /\ pc' = "scale"
    /\ UNCHANGED <<file, load_returned, stdout, data_set, numerical_vars,
                   X_normalized, y, split, fitted, predictions, metrics_df,
                   best>>

\* standardised values: zero, NaN
ZeroZ == <<0, 0, 1>>

NaNZ == <<0, 0, 0>>

\* the one element of a singleton; {e(v) : v \in {x}} computes x once
The(S) == CHOOSE x \in S : TRUE

\* a column of fractions brought to a common denominator: its numerators,
\* with 0 in the place of a NaN
ScaleNumerators(col) ==
    The({[i \in 1..Len(col) |->
            IF IsNaN(col[i]) THEN 0 ELSE col[i][1] * (L \div col[i][2])] :
         L \in {LCMSeq([i \in 1..Len(col) |->
                          IF IsNaN(col[i]) THEN 1 ELSE col[i][2]])}})

\* one standardised cell: z = B / sqrt(V) with B = m*a - S; NaN stays NaN, a
\* zero deviation is replaced by 1 and leaves x - mean = 0
ScaleCell(q, a, m, S, V) ==
    IF IsNaN(q) THEN NaNZ
    ELSE IF V = 0 THEN ZeroZ
    ELSE The({The({<<Sign(B), f[1], f[2]>> : f \in {Frac(B * B, V)}}) :
              B \in {m * a - S}})

\* StandardScaler on one column of fractions: z = (x - mean) / std over the
\* cells that are not NaN, std the population deviation.  With A the
\* numerators over a common denominator, m the number of cells, S = sum(A),
\* Q = sum(A^2): z = (m*A - S) / sqrt(V), V = m*Q - S^2.
ScaleColumn(col) ==
    The({The({The({[i \in 1..Len(col) |-> ScaleCell(col[i], A[i], m, S, V)] :
                   V \in {m * Q - S * S}}) :
              S \in {SumSeq(A)},
              Q \in {SumSeq([i \in 1..Len(col) |-> A[i] * A[i]])}}) :
         A \in {ScaleNumerators(col)},
         m \in {Cardinality({i \in 1..Len(col) : ~IsNaN(col[i])})}})

\* lines 260-268: X = dataset_encoded.drop('price'), scaler.fit_transform(X)
Normalize(t) ==
    LET feats == Range(t.columns) \ {"price"}
        n == Len(t.rows)
        scaled == [c \in feats |->
                     ScaleColumn([i \in 1..n |-> t.rows[i][c]])]
    IN  [i \in 1..n |-> [c \in feats |-> scaled[c][i]]]

\* lines 260-269; StandardScaler refuses a matrix with no rows
Scale ==
    /\ pc = "scale"
    /\ Len(dataset_encoded.rows) > 0
    /\ y' = [i \in 1..Len(dataset_encoded.rows) |->
               dataset_encoded.rows[i]["price"][1]]
    /\ X_normalized' = Normalize(dataset_encoded)
    /\ history' = Append(history, "scale")
    /\ pc' = "split"
    /\ UNCHANGED <<file, load_returned, stdout, data_set, numerical_vars,
                   dataset_cleaned, dataset_encoded, split, fitted,
                   predictions, metrics_df, best>>

\* line 266 on a matrix with no rows: ValueError, unhandled
ScaleRaises ==
    /\ pc = "scale"
    /\ Len(dataset_encoded.rows) = 0
    /\ Crash
    /\ UNCHANGED <<stdout, history>>

\* train_test_split(test_size=0.2): n_test = ceil(0.2 * n), the rest trains
\* (exact for the row counts of this model)
TestSize(n) == (n + 4) \div 5

\* the partition the seeded shuffle produces: some n_test positions are the
\* test rows, all the others train
train_test_split(X, target, test) ==
    LET train == (1..Len(X)) \ test IN
    [train |-> train, test |-> test,
     X_train |-> Take(X, train), X_test |-> Take(X, test),
     y_train |-> Take(target, train), y_test |-> Take(target, test)]

\* line 274; train_test_split refuses an empty training partition (a cleaned
\* table of one row, which no table of this model's sizes leaves)
Split ==
    /\ pc = "split"
    /\ Len(X_normalized) - TestSize(Len(X_normalized)) >= 1
    /\ \E test \in SUBSET (1..Len(X_normalized)) :
          /\ Cardinality(test) = TestSize(Len(X_normalized))
          /\ split' = train_test_split(X_normalized, y, test)
    /\ history' = Append(history, "split")
    /\ pc' = "train_fit"
    /\ UNCHANGED <<file, load_returned, stdout, data_set, numerical_vars,
                   dataset_cleaned, dataset_encoded, X_normalized, y, fitted,
                   predictions, metrics_df, best>>

\* lines 278-285: the registry, in insertion order
models ==
    <<"Multiple Linear Regression", "Random Forest",
      "Decision Tree Regression", "Boosted Decision Tree Regression",
      "K-nearest neighbors (KNN)", "XGBoost">>

\* what an estimator may predict for a row: the lowest price, the highest
\* price, or more than any price of the table
PredValues == {0, MaxPrice, MaxPrice + 1}

HasNaN(X) == \E i \in 1..Len(X) : \E c \in DOMAIN X[i] : X[i][c] = NaNZ

\* fitting on the whole matrix instead of the training partition
FitOf_all_rows(name, sp) ==
    [name |-> name,
     estimator |-> IF name = "K-nearest neighbors (KNN)"
                   THEN "grid_search.best_estimator_" ELSE "models[name]",
     X |-> sp.train \cup sp.test,
     y |-> sp.y_train \o sp.y_test]

\* lines 293-303: the estimator that is fitted for a name and the rows it is
\* fitted on.  GridSearchCV.fit(X_train, y_train) refits its best estimator
\* on all of X_train; every other model is fitted directly.
FitOf(name, sp) ==
    [name |-> name,
     estimator |-> IF name = "K-nearest neighbors (KNN)"
                   THEN "grid_search.best_estimator_" ELSE "models[name]",
     X |-> sp.train,
     y |-> sp.y_train]

\* lines 289-303 for the next registry name; LinearRegression refuses NaN
TrainFit ==
    /\ pc = "train_fit"
    /\ LET name == models[Len(predictions) + 1] IN
        /\ name = "Multiple Linear Regression" => ~HasNaN(split.X_train)
        /\ fitted' = Append(fitted, FitOf(name, split))
    /\ history' = IF Len(predictions) = 0
                  THEN Append(history, "train") ELSE history
    /\ pc' = "train_predict"
    /\ UNCHANGED <<file, load_returned, stdout, data_set, numerical_vars,
                   dataset_cleaned, dataset_encoded, X_normalized, y, split,
                   predictions, metrics_df>>
    /\ UNCHANGED best

\* line 303 for LinearRegression on features with NaN: ValueError, unhandled
FitRaises ==
    /\ pc = "train_fit"
    /\ models[Len(predictions) + 1] = "Multiple Linear Regression"
    /\ HasNaN(split.X_train)
    /\ history' = Append(history, "train")
    /\ Crash
    /\ UNCHANGED <<stdout>>

\* storing the newest prediction in front of the others
StorePrediction_in_front(preds, name, sp, p) ==
    <<[name |-> name, X |-> sp.test, pred |-> p]>> \o preds

\* line 307: predictions[name] = model.predict(X_test)
StorePrediction(preds, name, sp, p) ==
    Append(preds, [name |-> name, X |-> sp.test, pred |-> p])

TrainPredict ==
    /\ pc = "train_predict"
    /\ \E p \in [1..Len(split.X_test) -> PredValues] :
          predictions' = StorePrediction(predictions,
                             models[Len(predictions) + 1], split, p)
    /\ pc' = IF Len(predictions) + 1 = Len(models)
             THEN "evaluate" ELSE "train_fit"
    /\ UNCHANGED <<file, load_returned, stdout, history, data_set,
                   numerical_vars, dataset_cleaned, dataset_encoded,
                   X_normalized, y, split, fitted, metrics_df, best>>

\* sklearn.metrics on a target vector and a prediction vector
AbsErr(t, p) == SumSeq([i \in 1..Len(t) |-> Abs(t[i] - p[i])])

SqErr(t, p) == SumSeq([i \in 1..Len(t) |-> (t[i] - p[i]) * (t[i] - p[i])])

mean_absolute_error(t, p) == Frac(AbsErr(t, p), Len(t))

mean_squared_error(t, p) == Frac(SqErr(t, p), Len(t))

\* n times the total sum of squares of t: n*sum(t^2) - sum(t)^2
TotalSq(t) ==
    Len(t) * SumSeq([i \in 1..Len(t) |-> t[i] * t[i]]) - SumSeq(t) * SumSeq(t)

\* r2_score: 1 - SS_res / SS_tot; with SS_tot = 0 it is 1.0 for a perfect
\* prediction and 0.0 otherwise
r2_score(t, p) ==
    IF TotalSq(t) = 0
    THEN (IF SqErr(t, p) = 0 THEN <<1, 1>> ELSE <<0, 1>>)
    ELSE Frac(TotalSq(t) - Len(t) * SqErr(t, p), TotalSq(t))

\* lines 315-320: one metrics row; RMSE is kept as the square root of MSE
MetricsRow(name, t, p) ==
    [Model |-> name,
     MAE |-> mean_absolute_error(t, p),
     MSE |-> mean_squared_error(t, p),
     RMSE |-> [sqrt |-> mean_squared_error(t, p)],
     R2 |-> r2_score(t, p)]

\* lines 314-321 for the next entry of predictions
Evaluate ==
    /\ pc = "evaluate"
    /\ LET e == predictions[Len(metrics_df) + 1] IN
        metrics_df' = Append(metrics_df,
                             MetricsRow(e.name, split.y_test, e.pred))
    /\ history' = IF Len(metrics_df) = 0
                  THEN Append(history, "evaluate") ELSE history
    /\ pc' = IF Len(metrics_df) + 1 = Len(predictions)
             THEN "winner" ELSE "evaluate"
    /\ UNCHANGED <<file, load_returned, stdout, data_set, numerical_vars,
                   dataset_cleaned, dataset_encoded, X_normalized, y, split,
                   fitted, predictions, best>>

\* Series.idxmin() / idxmax(): the first position of the least / greatest
idxmin(s) ==
    CHOOSE i \in 1..Len(s) :
        /\ \A j \in 1..Len(s) : ~FracLess(s[j], s[i])
        /\ \A j \in 1..(i - 1) : FracLess(s[i], s[j])

\* the last position of the greatest instead of the first
idxmax_last(s) ==
    CHOOSE i \in 1..Len(s) :
        /\ \A j \in 1..Len(s) : ~FracLess(s[i], s[j])
        /\ \A j \in (i + 1)..Len(s) : FracLess(s[j], s[i])

idxmax(s) ==
    CHOOSE i \in 1..Len(s) :
        /\ \A j \in 1..Len(s) : ~FracLess(s[i], s[j])
        /\ \A j \in 1..(i - 1) : FracLess(s[j], s[i])

\* the row of greatest MSE taken for the best
best_mse_model_greatest(df) == df[idxmax([i \in 1..Len(df) |-> df[i].MSE])]

\* lines 333-334
best_mse_model(df) == df[idxmin([i \in 1..Len(df) |-> df[i].MSE])]

best_r2_model(df) == df[idxmax([i \in 1..Len(df) |-> df[i].R2])]

\* predictions[name]
PredictionOf(preds, name) ==
    (CHOOSE e \in Range(preds) : e.name = name).pred

\* lines 339-350: the same model is best on both, it is declared and plotted
DeclareBest ==
    /\ pc = "winner"
    /\ best_mse_model(metrics_df).Model = best_r2_model(metrics_df).Model
    /\ best' = [best_mse_model |-> best_mse_model(metrics_df).Model,
                best_r2_model |-> best_r2_model(metrics_df).Model,
                best_model_name |-> best_mse_model(metrics_df).Model,
                plot_actual |-> split.y_test,
                plot_predicted |->
                    PredictionOf(predictions,
                                 best_mse_model(metrics_df).Model)]
    /\ stdout' = Append(stdout, Line("Overall, the best model is", 1))
    /\ history' = Append(history, "winner")
    /\ pc' = "done"
    /\ UNCHANGED <<file, load_returned, data_set, numerical_vars,
                   dataset_cleaned, dataset_encoded, X_normalized, y, split,
                   fitted, predictions, metrics_df>>

\* lines 351-352: the two criteria name different models
ConsiderationNeeded ==
    /\ pc = "winner"
    /\ best_mse_model(metrics_df).Model # best_r2_model(metrics_df).Model
    /\ best' = [NoBest EXCEPT
                  !.best_mse_model = best_mse_model(metrics_df).Model,
                  !.best_r2_model = best_r2_model(metrics_df).Model]
    /\ stdout' = Append(stdout, Line("Consideration is needed", 0))
    /\ history' = Append(history, "winner")
    /\ pc' = "done"
    /\ UNCHANGED <<file, load_returned, data_set, numerical_vars,
                   dataset_cleaned, dataset_encoded, X_normalized, y, split,
                   fitted, predictions, metrics_df>>

\* the statements that call into pandas, scipy, statsmodels, sklearn, ...
\* outside any try block
LibraryStages ==
    {"inspect", "date", "explore", "select", "vif", "outliers", "encode",
     "scale", "split", "train_fit", "train_predict", "evaluate", "winner"}

\* a library call of the current statement raises; nothing catches it
LibraryRaises ==
    /\ pc \in LibraryStages
    /\ ~data_set.none
    /\ Crash
    /\ UNCHANGED <<stdout, history>>

\* the statements of the script, each running to completion
Progress ==
    \/ Load
    \/ QualityCheck
    \/ Inspect
    \/ InspectNone
    \/ ParseDates
    \/ Explore
    \/ SelectFeatures
    \/ Multicollinearity
    \/ RemoveOutliers
    \/ Encode
    \/ Scale
    \/ ScaleRaises
    \/ Split
    \/ TrainFit
    \/ FitRaises
    \/ TrainPredict
    \/ Evaluate
    \/ DeclareBest
    \/ ConsiderationNeeded

Next == Progress \/ LibraryRaises

Spec == Init /\ [][Next]_vars

\* the interpreter always executes the next statement
FairSpec == Spec /\ WF_vars(Progress)

(* ------------- evaluation and selection on their own ------------------- *)

\* The states in which the evaluation loop starts for a table of EvalRows
\* rows whose last rows are the test partition: every price of a test row,
\* and for every model every prediction vector over EvalPredValues.
EvalTest == (EvalRows - TestSize(EvalRows) + 1)..EvalRows

EvalPredValues == {0, MaxPrice}

EvalTables ==
    {MkTable(EvalRows, AllVary, "shared", p) :
        p \in PriceVectors(EvalRows, TestSize(EvalRows))}

InitEval ==
    /\ pc = "evaluate"
    /\ file \in {[kind |-> "ok", table |-> t] : t \in EvalTables}
    /\ load_returned = "table"
    /\ data_set = SelectColumns(to_datetime(file.table), selected_features)
    /\ numerical_vars = ExclusionLoop(data_set, NumericColumns(data_set), 1)
    /\ stdout = load_dataset(file).printed
                  \o check_data_quality(file.table).printed
                  \o <<Line("vif_data", Len(numerical_vars)),
                       Line("Cleaned dataset shape:",
                            Len(ZScoreFilter(data_set).rows))>>
    /\ history = SubSeq(StageOrder, 1, 11)
    /\ dataset_cleaned = None
    /\ dataset_encoded = fit_transform(ZScoreFilter(data_set))
    /\ X_normalized = Normalize(dataset_encoded)
    /\ y = [i \in 1..Len(dataset_encoded.rows) |->
              dataset_encoded.rows[i]["price"][1]]
    /\ split = train_test_split(X_normalized, y, EvalTest)
    /\ fitted = [i \in 1..Len(models) |-> FitOf(models[i], split)]
    /\ predictions \in
          {[i \in 1..Len(models) |->
               [name |-> models[i], X |-> EvalTest, pred |-> f[i]]] :
           f \in [1..Len(models) -> [1..TestSize(EvalRows) -> EvalPredValues]]}
    /\ metrics_df = <<>>
    /\ best = NoBest

NextEval == Evaluate \/ DeclareBest \/ ConsiderationNeeded

SpecEval == InitEval /\ [][NextEval]_vars

(* ------------------------------ claims --------------------------------- *)

IsPrefix(s, t) == Len(s) <= Len(t) /\ s = SubSeq(t, 1, Len(s))

\* the message load_dataset prints for each class of outcome
LoadMessage ==
    [k \in FileKinds |->
        CASE k = "ok" -> "head"
          [] k = "not_found" -> "The file was not found."
          [] k = "empty" -> "The file is empty."
          [] OTHER -> "An error occurred:"]

\* C1: load_dataset never raises to its caller.  Once the load statement has
\* run, it has returned: the table of the file when reading succeeds, None in
\* exactly the three failure classes (file not found, empty file, any other
\* exception), and the first printed line is the message of that class.
C1_LoadNeverRaises ==
    Len(history) >= 1 =>
        /\ load_returned # "pending"
        /\ load_returned = "table" <=> file.kind = "ok"
        /\ load_returned = "None" <=>
               file.kind \in {"not_found", "empty", "unreadable"}
        /\ Len(stdout) >= 1 /\ stdout[1].tag = LoadMessage[file.kind]
        /\ pc = "quality" =>
               data_set = (IF file.kind = "ok" THEN file.table ELSE None)

C1_Witness ==
    /\ pc = "quality"
    /\ file.kind = "unreadable"
    /\ load_returned = "None"
    /\ data_set = None

\* C2: when load_dataset returned None the script does not check it: it
\* reaches the inspection statement, whose method call on None raises an
\* unhandled exception; the run ends in the error state, and date parsing
\* and every later stage never start.  (Last conjunct: every run comes to
\* have loaded a table or to be in the error state, so a run that loaded
\* None, which stays None, is one that ends in the error state.)
C2_NoneEndsInError ==
    /\ [](load_returned = "None" =>
            /\ pc \in {"quality", "inspect", "error"}
            /\ IsPrefix(history, <<"load", "quality-check">>))
    /\ [][load_returned = "None" /\ pc = "inspect" => pc' = "error"]_vars
    /\ [][load_returned = "None" => load_returned' = "None"]_vars
    /\ <>(load_returned = "table" \/ pc = "error")

C2_Witness ==
    /\ pc = "error"
    /\ load_returned = "None"
    /\ history = <<"load", "quality-check">>

\* C3: check_data_quality returns nothing and leaves its argument as it was.
\* For a table it prints the number of duplicate rows (rows minus distinct
\* rows) and the null counts; for None it prints that the checks cannot be
\* performed; in neither case does it raise.
C3_QualityCheckFrame ==
    Len(history) >= 2 =>
        /\ Len(stdout) >= 2
        /\ file.kind = "ok" =>
              /\ Len(stdout) >= 3
              /\ stdout[2] =
                    Line("Number of duplicate rows:",
                         Len(file.table.rows)
                           - Cardinality(Range(file.table.rows)))
              /\ stdout[3] =
                    Line("Null values in each column:",
                         Cardinality({ic \in (1..Len(file.table.rows))
                                             \X Range(RawColumns) :
                                         file.table.rows[ic[1]][ic[2]] = Null}))
        /\ file.kind # "ok" =>
              stdout[2] =
                 Line("Data set is None, cannot perform data quality checks.", 0)
        /\ pc = "inspect" =>
              /\ data_set = (IF file.kind = "ok" THEN file.table ELSE None)
              /\ check_data_quality(data_set).returned = "None"

C3_Witness ==
    /\ pc = "inspect"
    /\ ~data_set.none
    /\ stdout[2].n > 0
    /\ stdout[3].n > 0

\* the number of stages that have started when the script is at pc
StagesStarted ==
    CASE pc = "load" -> {0}
      [] pc = "quality" -> {1}
      [] pc \in {"inspect", "date"} -> {2}
      [] pc = "explore" -> {3}
      [] pc = "select" -> {4}
      [] pc = "vif" -> {5}
      [] pc = "outliers" -> {6}
      [] pc = "encode" -> {7}
      [] pc = "scale" -> {8}
      [] pc = "split" -> {9}
      [] pc = "train_fit" -> IF Len(predictions) = 0 THEN {10} ELSE {11}
      [] pc = "train_predict" -> {11}
      [] pc = "evaluate" -> IF Len(metrics_df) = 0 THEN {11} ELSE {12}
      [] pc = "winner" -> {12}
      [] pc = "done" -> {13}
      [] OTHER -> 0..13

\* C4: the stages run once each in the fixed order load, quality-check,
\* type-convert, explore, select, multicollinearity, outliers, encode, scale,
\* split, train, evaluate, winner: the stages started so far are always an
\* initial part of that order, as many as the position of the script says;
\* and a run in which no statement raises ends after the winner stage with
\* all thirteen stages run.
C4_StagesInOrder ==
    /\ [](/\ IsPrefix(history, StageOrder)
          /\ Len(history) \in StagesStarted)
    /\ ([](pc # "error") => <>(pc = "done" /\ history = StageOrder))

C4_Witness ==
    /\ pc = "done"
    /\ history = StageOrder
    /\ Len(metrics_df) = Len(models)

\* C5: the predictions stay parallel to the registry.  At every point the
\* names with a stored prediction are an initial part of the registry in
\* registry order; after the training loop they are all six; the metrics
\* table has one row per evaluated model, in registry order, holding the
\* MAE, MSE, RMSE and R2 of that model's predictions against the test prices,
\* and after the evaluation loop it has a row for every model.
C5_PredictionsParallel ==
    /\ Len(predictions) <= Len(models)
    /\ \A i \in 1..Len(predictions) : predictions[i].name = models[i]
    /\ pc \in {"evaluate", "winner", "done"} =>
          {predictions[i].name : i \in 1..Len(predictions)} = Range(models)
    /\ Len(metrics_df) <= Len(predictions)
    /\ pc \in {"winner", "done"} => Len(metrics_df) = Len(models)
    /\ \A i \in 1..Len(metrics_df) :
          LET r == metrics_df[i]
              t == split.y_test
              p == predictions[i].pred
              n == Len(t)
          IN  /\ r.Model = models[i]
              /\ r.MAE[1] * n = AbsErr(t, p) * r.MAE[2]
              /\ r.MSE[1] * n = SqErr(t, p) * r.MSE[2]
              /\ r.RMSE.sqrt = r.MSE
              /\ TotalSq(t) # 0 =>
                    r.R2[1] * TotalSq(t)
                       = (TotalSq(t) - n * SqErr(t, p)) * r.R2[2]
              /\ TotalSq(t) = 0 =>
                    r.R2 = IF SqErr(t, p) = 0 THEN <<1, 1>> ELSE <<0, 1>>

C5_Witness ==
    /\ pc = "done"
    /\ Len(metrics_df) = 6
    /\ metrics_df[6].Model = "XGBoost"
    /\ metrics_df[6].MSE # metrics_df[5].MSE

\* C6: the model reported best by MSE is a metrics row of least MSE, the
\* model reported best by R2 is a metrics row of greatest R2, an overall best
\* model is declared exactly when the two name the same model, and the plot
\* of the declared model shows that model's own predictions against the test
\* prices.
C6_WinnerByMseAndR2 ==
    pc = "done" =>
        /\ \E i \in 1..Len(metrics_df) :
              /\ metrics_df[i].Model = best.best_mse_model
              /\ \A j \in 1..Len(metrics_df) :
                    ~FracLess(metrics_df[j].MSE, metrics_df[i].MSE)
        /\ \E i \in 1..Len(metrics_df) :
              /\ metrics_df[i].Model = best.best_r2_model
              /\ \A j \in 1..Len(metrics_df) :
                    ~FracLess(metrics_df[i].R2, metrics_df[j].R2)
        /\ best.best_model_name # "" <=>
              best.best_mse_model = best.best_r2_model
        /\ best.best_model_name # "" =>
              /\ best.best_model_name = best.best_mse_model
              /\ best.plot_actual = split.y_test
              /\ \E i \in 1..Len(predictions) :
                    /\ predictions[i].name = best.best_model_name
                    /\ predictions[i].pred = best.plot_predicted

C6_Witness ==
    /\ pc = "done"
    /\ best.best_model_name = "K-nearest neighbors (KNN)"
    /\ best.plot_predicted # predictions[1].pred

\* C7: models are scored on held-out data.  The train and test partitions
\* are disjoint and together are the rows of the encoded table; every
\* estimator (for KNN the grid search's refitted best estimator) is fitted on
\* the training partition and nothing else, and has been fitted before its
\* prediction is stored; every prediction is made on the test rows and every
\* metrics row is computed from the test rows' prices and that prediction.
C7_HeldOut ==
    pc \in {"train_fit", "train_predict", "evaluate", "winner", "done"} =>
        /\ split.train \cap split.test = {}
        /\ split.train \cup split.test = 1..Len(dataset_encoded.rows)
        /\ split.test # {} /\ split.train # {}
        /\ split.X_train = Take(X_normalized, split.train)
        /\ split.X_test = Take(X_normalized, split.test)
        /\ split.y_train = Take(y, split.train)
        /\ split.y_test = Take(y, split.test)
        /\ \A i \in 1..Len(fitted) :
              /\ fitted[i].name = models[i]
              /\ fitted[i].X = split.train
              /\ fitted[i].y = Take(y, split.train)
        /\ Len(predictions) <= Len(fitted)
        /\ \A i \in 1..Len(predictions) :
              /\ predictions[i].X = split.test
              /\ Len(predictions[i].pred) = Cardinality(split.test)
        /\ \A i \in 1..Len(metrics_df) :
              metrics_df[i] =
                 MetricsRow(models[i], Take(y, split.test), predictions[i].pred)

C7_Witness ==
    /\ pc = "done"
    /\ Len(fitted) = 6
    /\ fitted[5].estimator = "grid_search.best_estimator_"
    /\ Len(metrics_df) = 6

\* C8: after the exclusion loop no column left in numerical_vars has one or
\* fewer distinct values, whatever the arrangement of constant and empty
\* columns, and price is not among them.
C8_NoConstantColumnLeft ==
    (Len(history) >= 6 /\ pc # "error") =>
        /\ \A k \in 1..Len(numerical_vars) :
              Nunique(data_set, numerical_vars[k]) > 1
        /\ \A k \in 1..Len(numerical_vars) : numerical_vars[k] # "price"

\* the training features and targets of the run on the table whose test rows
\* cost alt instead (same rows, same partition)
AltRows(alt) ==
    LET rows == ZScoreFilter(data_set).rows IN
    [i \in 1..Len(rows) |->
        IF i \in split.test
        THEN [rows[i] EXCEPT !["price"] = alt[i]]
        ELSE rows[i]]

AltEncoded(alt) ==
    [ZScoreFilter(data_set) EXCEPT !.rows = EncodeRows(AltRows(alt))]

\* C9: the price of a test row does not influence what the models are
\* trained on: with any other prices for the test rows, encoding and scaling
\* give the same training feature matrix and the same training targets.
C9_TestPricesDoNotLeak ==
    (pc = "train_fit" /\ Len(predictions) = 0) =>
        \A alt \in [split.test -> 0..MaxPrice] :
            /\ Take(Normalize(AltEncoded(alt)), split.train) = split.X_train
            /\ Take([i \in 1..Len(AltRows(alt)) |-> AltRows(alt)[i]["price"]],
                    split.train) = split.y_train

====
